---- MODULE Spec2Model ----
(***************************************************************************)
(* Model of stickerbot.py: the startup sync, the arrival handler `hoover`, *)
(* the single background task `sticker_processor` running                  *)
(* `process_sticker`, and the Telegram sticker-set directory they talk to. *)
(*                                                                         *)
(* Pack names: the slug f"{base}_{i}_by_{bot}" is modelled by its number   *)
(* i >= 1, the empty string "" by 0 and the configured reference packs     *)
(* (EXTRA_PACKS) by negative numbers.                                      *)
(* A message is [id |-> file_unique_id, n |-> arrival number].             *)
(***************************************************************************)
EXTENDS Integers, Sequences, FiniteSets, TLC

(* ----- bounds of the model --------------------------------------------- *)
\* number of sticker messages the platform delivers
MaxArrivals == 3
\* number of packs deleted out of band
MaxVanish == 2
\* number of process restarts
MaxRestarts == 1
\* _slug on its own: largest start index tried, and the length of the probe
\* window, scaled down from the 1000 candidates of the source
MaxStart == 2
SlugWindow == 3

\* pack capacities and queue size, scaled down from the configured
\* MAX_STATIC = 120, MAX_ANIM = 50 and MAX_QUEUE_SIZE = 50
MAX_STATIC == 2
MAX_ANIM == 1
MAX_QUEUE_SIZE == 2

(* ----- configuration ---------------------------------------------------- *)
MAX_SIDE_STATIC == 512
SLUG_PROBES == 1000
CONCURRENT_LIMIT == 3

\* EXTRA_PACKS: -1 exists and holds sticker 1, -2 does not exist
EXTRA_PACKS == <<-1, -2>>

(* ----- stickers --------------------------------------------------------- *)
\* file_unique_id values; the media behind an id fixes its kind and size
\* 1, 2: static within 512x512; 3: static, oversized; 4, 5: animated or video
Ids == 1..5
IsAnim(id) == id >= 4
Width(id) == IF id = 3 THEN 3000 ELSE 512
Height(id) == 512

NoMsg == [id |-> 0, n |-> 0]

VARIABLES
  phase,            \* main(): "boot", "verify", "running", "aborted"
  state,            \* the dict `state`
  _seen,            \* the set `_seen`
  persisted,        \* DATA_FILE: <<>> when absent, else <<record>>
  processing_queue, \* asyncio.Queue(maxsize=MAX_QUEUE_SIZE)
  error_count,
  total_processed,
  wpc,              \* position of sticker_processor / process_sticker
  msg,              \* the message process_sticker holds
  packs,            \* the sticker sets on the platform, by name
  arrivals,         \* history: messages delivered to hoover
  vanished,         \* history: packs deleted out of band
  runs,             \* history: restarts of the process
  placed,           \* history: id -> times uploaded into any pack
  acks,             \* history: reactions sent, as <<n, id, emoji>>
  logged,           \* history: log lines, as <<n, id, what>>
  recov,            \* history: n -> times the message was re-queued
  failIdx,          \* history: n -> state.index at its last failed append
  made,             \* history: n -> packs created for it since that append
  holders,          \* processing_semaphore: the messages (n) holding a permit
  idx0,             \* history: state.index when process_sticker took msg; 0 when idle
  probe             \* one call of _slug: its directory answers and result

vars == <<phase, state, _seen, persisted, processing_queue, error_count,
          total_processed, wpc, msg, packs, arrivals, vanished, runs,
          placed, acks, logged, recov, failIdx, made, holders, idx0, probe>>

hist == <<arrivals, vanished, runs, placed, acks, logged, recov, failIdx, made>>

\* the worker's hold on the current message
held == <<holders, idx0>>

(* ----- state helpers ----------------------------------------------------- *)
_blank_state ==
  [index |-> 1, count |-> 0, current_pack |-> 0, is_animated |-> FALSE,
   seen |-> {}]

load_state(file) == IF file # <<>> THEN file[1] ELSE _blank_state

save_state(st) == <<st>>

\* dict.update: every key of `new` overwrites the key of `old`
update(old, new) == [k \in DOMAIN old |-> IF k \in DOMAIN new THEN new[k] ELSE old[k]]

Range(s) == {s[i] : i \in 1..Len(s)}

(* ----- _slug -------------------------------------------------------------- *)
\* results of _slug that are not a name
NoFreeSlug == 0
Raised == -1

\* the loop of _slug over the candidates i, i+1, .. end-1.  `names` are the
\* packs that exist, `bad` the candidates answered with a TelegramBadRequest
\* other than STICKERSET_INVALID, `exc` those answered with an exception
\* that is no TelegramBadRequest.  NoFreeSlug when the loop runs out
\* (RuntimeError "No free slug"), Raised when an exception leaves the loop.
RECURSIVE SlugProbe(_, _, _, _, _)
SlugProbe(names, bad, exc, i, end) ==
  IF i >= end THEN NoFreeSlug
  ELSE IF i \in exc THEN Raised
  ELSE IF i \in bad THEN SlugProbe(names, bad, exc, i + 1, end)
  ELSE IF i \notin names THEN i
  ELSE SlugProbe(names, bad, exc, i + 1, end)

_slug(names, bad, exc, start) ==
  SlugProbe(names, bad, exc, start, start + SLUG_PROBES)

(* ----- _maybe_resize_static ------------------------------------------------ *)
NeedsResize(id) ==
  /\ ~IsAnim(id)
  /\ ~(Width(id) <= MAX_SIDE_STATIC /\ Height(id) <= MAX_SIDE_STATIC)

\* the outcomes _maybe_resize_static can have: "src" (a usable source) or
\* "ValueError" (load shedding, Pillow missing, download or resize failure)
_maybe_resize_static(id, qsize) ==
  IF ~NeedsResize(id) THEN {"src"}
  ELSE IF qsize * 10 > MAX_QUEUE_SIZE * 8 /\ (Width(id) > 2048 \/ Height(id) > 2048)
       THEN {"ValueError"}
       ELSE {"src", "ValueError"}

(* ----- initial state -------------------------------------------------------- *)
InitMain ==
  /\ phase = "boot"
  /\ persisted = <<>>
  /\ state = load_state(<<>>)
  /\ _seen = {}
  /\ processing_queue = <<>>
  /\ error_count = 0
  /\ total_processed = 0
  /\ wpc = "get"
  /\ msg = NoMsg
  /\ packs = (-1 :> [anim |-> FALSE, stickers |-> <<1>>])
  /\ arrivals = 0
  /\ vanished = 0
  /\ runs = 0
  /\ placed = [i \in Ids |-> 0]
  /\ acks = {}
  /\ logged = {}
  /\ recov = [n \in 1..MaxArrivals |-> 0]
  /\ failIdx = [n \in 1..MaxArrivals |-> 0]
  /\ made = [n \in 1..MaxArrivals |-> 0]
  /\ holders = {}
  /\ idx0 = 0

Init ==
  /\ InitMain
  /\ probe = <<>>

(* ----- startup: _sync_state -------------------------------------------------- *)
SyncPacks ==
  {EXTRA_PACKS[i] : i \in 1..Len(EXTRA_PACKS)}
    \cup (IF state.current_pack # 0 THEN {state.current_pack} ELSE {})

\* a seeding that gives up on every pack once one of them is missing
FetchedAllOrNothing(names) ==
  IF names \subseteq DOMAIN packs THEN names ELSE {}

\* the packs _bootstrap_dedup reads: a pack answered with STICKERSET_INVALID
\* is skipped, the loop goes on with the next name
Fetched(names) == names \cap DOMAIN packs

\* _sync_state up to the end of _bootstrap_dedup
SyncBootstrap ==
  /\ phase = "boot"
  /\ \E err \in BOOLEAN :
       IF err
       THEN \* a fetch raised something other than STICKERSET_INVALID
            /\ phase' = "aborted"
            /\ UNCHANGED <<state, _seen, persisted>>
       ELSE LET found == Fetched(SyncPacks)
                ids == UNION {Range(packs[p].stickers) : p \in found}
                seen2 == _seen \cup ids
                st2 == [state EXCEPT !.seen = seen2]
            IN /\ _seen' = seen2
               /\ state' = st2
               /\ persisted' = save_state(st2)
               /\ phase' = "verify"
  /\ UNCHANGED <<processing_queue, error_count, total_processed, wpc, msg,
                 packs, hist, held, probe>>

\* _sync_state: verification of the recorded current pack
SyncVerify ==
  /\ phase = "verify"
  /\ phase' = "running"
  /\ \/ /\ state.current_pack # 0
        /\ state.current_pack \notin DOMAIN packs
        /\ state' = update(state, _blank_state)
        /\ persisted' = save_state(state')
     \/ \* no current pack, pack verified, or another error that is only logged
        /\ UNCHANGED <<state, persisted>>
  /\ UNCHANGED <<_seen, processing_queue, error_count, total_processed, wpc,
                 msg, packs, hist, held, probe>>

(* ----- main ------------------------------------------------------------------ *)
\* polling and the processor task started without awaiting _sync_state
PipelineUpEarly == phase # "aborted"

\* main() awaits _sync_state before it creates the sticker_processor task
\* and starts polling
PipelineUp == phase = "running"

\* a queue created without maxsize
QueueUnbounded == FALSE

\* asyncio.Queue(maxsize=MAX_QUEUE_SIZE).full()
QueueFull == Len(processing_queue) >= MAX_QUEUE_SIZE

(* ----- arrival: hoover ------------------------------------------------------ *)
hoover ==
  /\ PipelineUp
  /\ arrivals < MaxArrivals
  /\ arrivals' = arrivals + 1
  /\ \E id \in Ids :
       IF ~QueueFull
       THEN \* put_nowait
            /\ processing_queue' = Append(processing_queue, [id |-> id, n |-> arrivals'])
            /\ UNCHANGED <<acks, logged>>
       ELSE \* asyncio.QueueFull
            /\ processing_queue' = processing_queue
            /\ logged' = logged \cup {<<arrivals', id, "queue_full">>}
            /\ acks' = acks \cup {<<arrivals', id, "down">>}
  /\ UNCHANGED <<phase, state, _seen, persisted, error_count, total_processed,
                 wpc, msg, packs, vanished, runs, placed, recov, failIdx, made,
                 held, probe>>

\* a processor that takes the next message while process_sticker is still
\* handling the previous one
DequeueEager ==
  /\ PipelineUp
  /\ processing_queue # <<>>
  /\ msg' = Head(processing_queue)
  /\ processing_queue' = Tail(processing_queue)
  /\ wpc' = "enter"
  /\ UNCHANGED <<phase, state, _seen, persisted, error_count, total_processed,
                 packs, hist, held, probe>>

(* ----- sticker_processor / process_sticker ----------------------------------- *)
\* msg = await processing_queue.get()
Dequeue ==
  /\ PipelineUp
  /\ wpc = "get"
  /\ processing_queue # <<>>
  /\ msg' = Head(processing_queue)
  /\ processing_queue' = Tail(processing_queue)
  /\ wpc' = "enter"
  /\ UNCHANGED <<phase, state, _seen, persisted, error_count, total_processed,
                 packs, hist, held, probe>>

\* a breaker whose rate is computed with integer division
CircuitOpenFloorDiv ==
  total_processed > 0 /\ error_count \div total_processed > 0

\* total_processed > 0 and error_count / total_processed > MAX_ERROR_RATE (0.3)
CircuitOpen ==
  total_processed > 0 /\ error_count * 10 > total_processed * 3

\* async with processing_semaphore, then the circuit breaker check
Enter ==
  /\ wpc = "enter"
  /\ Cardinality(holders) < CONCURRENT_LIMIT
  /\ holders' = holders \cup {msg.n}
  /\ idx0' = state.index
  /\ wpc' = IF CircuitOpen THEN "pause" ELSE "dedup"
  /\ logged' = IF CircuitOpen
                THEN logged \cup {<<msg.n, msg.id, "paused">>} ELSE logged
  /\ UNCHANGED <<phase, state, _seen, persisted, processing_queue, error_count,
                 total_processed, msg, packs, arrivals, vanished, runs, placed,
                 acks, recov, failIdx, made, probe>>

\* await asyncio.sleep(5)
Pause ==
  /\ wpc = "pause"
  /\ wpc' = "dedup"
  /\ UNCHANGED <<phase, state, _seen, persisted, processing_queue, error_count,
                 total_processed, msg, packs, hist, held, probe>>

\* a dedup test that never matches
DuplicateNever(id) == FALSE

\* st.file_unique_id in _seen
Duplicate(id) == id \in _seen

\* process_sticker returns: the semaphore is released and the processor
\* loop goes back to processing_queue.get()
Return ==
  /\ holders' = holders \ {msg.n}
  /\ idx0' = 0
  /\ wpc' = "get"
  /\ msg' = NoMsg

\* if st.file_unique_id in _seen: return
DedupSkip ==
  /\ wpc = "dedup"
  /\ Duplicate(msg.id)
  /\ Return
  /\ logged' = logged \cup {<<msg.n, msg.id, "dup">>}
  /\ UNCHANGED <<phase, state, _seen, persisted, processing_queue, error_count,
                 total_processed, packs, arrivals, vanished, runs, placed, acks,
                 recov, failIdx, made, probe>>

Limit(anim) == IF anim THEN MAX_ANIM ELSE MAX_STATIC

\* a rollover test that lets count pass the limit by one
needs_new_pack_late(st, anim) ==
  \/ st.current_pack = 0
  \/ st.count > Limit(anim)
  \/ st.is_animated # anim

needs_new_pack(st, anim) ==
  \/ st.current_pack = 0
  \/ st.count >= Limit(anim)
  \/ st.is_animated # anim

\* bookkeeping that advances index for every new pack
RolloverAlways(st, anim) ==
  [st EXCEPT !.index = st.index + 1, !.count = 0, !.is_animated = anim]

\* the in-memory bookkeeping done before _new_pack is awaited
Rollover(st, anim) ==
  [st EXCEPT !.index = st.index + (IF st.current_pack # 0 THEN 1 ELSE 0),
             !.count = 0,
             !.is_animated = anim]

\* total_processed += 1, the rollover decision and its in-memory bookkeeping
Decide ==
  /\ wpc = "dedup"
  /\ ~Duplicate(msg.id)
  /\ total_processed' = total_processed + 1
  /\ LET anim == IsAnim(msg.id)
     IN IF needs_new_pack(state, anim)
        THEN /\ state' = Rollover(state, anim)
             /\ wpc' = "newpack"
        ELSE /\ state' = state
             /\ wpc' = "add"
  /\ UNCHANGED <<phase, _seen, persisted, processing_queue, error_count, msg,
                 packs, hist, held, probe>>

\* except Exception in process_sticker: thumbs down, error_count += 1
Failed ==
  /\ acks' = acks \cup {<<msg.n, msg.id, "down">>}
  /\ error_count' = error_count + 1
  /\ Return

\* state["current_pack"] = await _new_pack(st, chat); save_state(state)
NewPack ==
  /\ wpc = "newpack"
  /\ \E bad \in SUBSET {state.index} :
     LET name == _slug(DOMAIN packs, bad, {}, state.index)
     IN \E r \in _maybe_resize_static(msg.id, Len(processing_queue)),
           api \in {"ok", "error", "created_then_error"} :
        /\ logged' = IF r = "ValueError" /\ name # NoFreeSlug
                      THEN logged \cup {<<msg.n, msg.id, "resize_failed">>} ELSE logged
        /\ IF name # NoFreeSlug /\ r = "src" /\ api # "error"
           THEN \* create_new_sticker_set succeeded with the sticker as first member
                /\ packs' = packs @@ (name :> [anim |-> IsAnim(msg.id),
                                                stickers |-> <<msg.id>>])
                /\ placed' = [placed EXCEPT ![msg.id] = @ + 1]
                /\ made' = [made EXCEPT ![msg.n] = @ + 1]
                /\ IF api = "ok"
                   THEN /\ state' = [state EXCEPT !.current_pack = name]
                        /\ persisted' = save_state(state')
                        /\ wpc' = "add"
                        /\ UNCHANGED <<acks, error_count, msg, held>>
                   ELSE \* send_message raised after the pack was created
                        /\ Failed
                        /\ UNCHANGED <<state, persisted>>
           ELSE \* bot.me, _slug, the resize or create_new_sticker_set raised
                /\ Failed
                /\ UNCHANGED <<state, persisted, packs, placed, made>>
  /\ UNCHANGED <<phase, _seen, processing_queue, total_processed, arrivals,
                 vanished, runs, recov, failIdx, probe>>

\* lines 416-422: count += 1, ledger update, save, thumbs up
Success(st, id) ==
  [st EXCEPT !.count = st.count + 1, !.seen = _seen \cup {id}]

\* success = await _add(st, state["current_pack"], chat) and what follows it
Add ==
  /\ wpc = "add"
  /\ LET pack == state.current_pack
     IN \E r \in _maybe_resize_static(msg.id, Len(processing_queue)),
           api \in {"ok", "error"} :
        /\ logged' = IF r = "ValueError"
                      THEN logged \cup {<<msg.n, msg.id, "resize_failed">>} ELSE logged
        /\ CASE r = "src" /\ api = "error" ->
                 \* TelegramBadRequest other than STICKERSET_INVALID: re-raised
                 /\ Failed
                 /\ UNCHANGED <<state, _seen, persisted, packs, placed, recov,
                                failIdx, made>>
            [] r = "src" /\ api = "ok" /\ pack \notin DOMAIN packs ->
                 \* STICKERSET_INVALID: _add returns False
                 /\ state' = [state EXCEPT !.current_pack = 0]
                 /\ persisted' = save_state(state')
                 /\ wpc' = "requeue"
                 /\ recov' = [recov EXCEPT ![msg.n] = @ + 1]
                 /\ failIdx' = [failIdx EXCEPT ![msg.n] = state.index]
                 /\ made' = [made EXCEPT ![msg.n] = 0]
                 /\ UNCHANGED <<_seen, packs, placed, acks, error_count, msg, held>>
            [] OTHER ->
                 \* _add returned True: the sticker was added, or the resize
                 \* raised ValueError and the sticker was skipped
                 /\ IF r = "src"
                    THEN /\ packs' = [packs EXCEPT ![pack].stickers = Append(@, msg.id)]
                         /\ placed' = [placed EXCEPT ![msg.id] = @ + 1]
                    ELSE UNCHANGED <<packs, placed>>
                 /\ state' = Success(state, msg.id)
                 /\ _seen' = _seen \cup {msg.id}
                 /\ persisted' = save_state(state')
                 /\ acks' = acks \cup {<<msg.n, msg.id, "up">>}
                 /\ Return
                 /\ UNCHANGED <<error_count, recov, failIdx, made>>
  /\ UNCHANGED <<phase, processing_queue, total_processed, arrivals, vanished,
                 runs, probe>>

\* await processing_queue.put(msg): waits while the queue is full
Requeue ==
  /\ wpc = "requeue"
  /\ ~QueueFull
  /\ processing_queue' = Append(processing_queue, msg)
  /\ Return
  /\ UNCHANGED <<phase, state, _seen, persisted, error_count, total_processed,
                 packs, hist, probe>>

(* ----- environment -------------------------------------------------------------- *)
\* a pack this bot created is deleted out of band
Vanish ==
  /\ vanished < MaxVanish
  /\ vanished' = vanished + 1
  /\ \E p \in {q \in DOMAIN packs : q > 0} :
       packs' = [q \in DOMAIN packs \ {p} |-> packs[q]]
  /\ UNCHANGED <<phase, state, _seen, persisted, processing_queue, error_count,
                 total_processed, wpc, msg, arrivals, runs, placed, acks, logged,
                 recov, failIdx, made, held, probe>>

\* the process ends between two items and is started again: module load
\* (load_state, _seen, counters) and a fresh queue in main()
Restart ==
  /\ runs < MaxRestarts
  /\ runs' = runs + 1
  /\ phase \in {"running", "aborted"}
  /\ wpc = "get"
  /\ phase' = "boot"
  /\ state' = load_state(persisted)
  /\ _seen' = state'.seen
  /\ processing_queue' = <<>>
  /\ error_count' = 0
  /\ total_processed' = 0
  /\ UNCHANGED <<persisted, wpc, msg, packs, arrivals, vanished, placed, acks,
                 logged, recov, failIdx, made, held, probe>>

Next ==
  \/ SyncBootstrap
  \/ SyncVerify
  \/ hoover
  \/ Dequeue
  \/ Enter
  \/ Pause
  \/ DedupSkip
  \/ Decide
  \/ NewPack
  \/ Add
  \/ Requeue
  \/ Vanish
  \/ Restart

Spec == Init /\ [][Next]_vars

(* ----- the same program with every await eventually returning ------------------ *)
\* the steps of the sticker_processor task
Worker ==
  \/ Dequeue
  \/ Enter
  \/ Pause
  \/ DedupSkip
  \/ Decide
  \/ NewPack
  \/ Add
  \/ Requeue

\* the steps of _sync_state
Startup == SyncBootstrap \/ SyncVerify

\* the event loop runs a task whose await can return; arrivals, pack
\* deletions and restarts are under no obligation
FairSpec == Init /\ [][Next]_vars /\ WF_vars(Worker) /\ WF_vars(Startup)

(* ----- a first start with no reference pack on the platform -------------------- *)
\* as Init, but every pack of EXTRA_PACKS is missing, so that the ledger
\* starts empty
StreamInit ==
  /\ phase = "boot"
  /\ persisted = <<>>
  /\ state = load_state(<<>>)
  /\ _seen = {}
  /\ processing_queue = <<>>
  /\ error_count = 0
  /\ total_processed = 0
  /\ wpc = "get"
  /\ msg = NoMsg
  /\ packs = [p \in {} |-> [anim |-> FALSE, stickers |-> <<>>]]
  /\ arrivals = 0
  /\ vanished = 0
  /\ runs = 0
  /\ placed = [i \in Ids |-> 0]
  /\ acks = {}
  /\ logged = {}
  /\ recov = [n \in 1..MaxArrivals |-> 0]
  /\ failIdx = [n \in 1..MaxArrivals |-> 0]
  /\ made = [n \in 1..MaxArrivals |-> 0]
  /\ holders = {}
  /\ idx0 = 0
  /\ probe = <<>>

StreamSpec == StreamInit /\ [][Next]_vars

(* ----- _slug on its own --------------------------------------------------------- *)
\* the candidate numbers a call can reach
SlugUniverse == 1..(MaxStart + SlugWindow - 1)

\* a call of _slug about to be made: the packs that exist, the candidates
\* answered with another TelegramBadRequest or with another exception, and
\* the start index
SlugInit ==
  /\ InitMain
  /\ \E names \in SUBSET SlugUniverse, bad \in SUBSET SlugUniverse,
        exc \in SUBSET SlugUniverse, start \in 1..MaxStart :
       probe = [names |-> names, bad |-> bad, exc |-> exc, start |-> start,
                done |-> FALSE, out |-> NoFreeSlug]

\* the call, over a window of SlugWindow candidates
SlugCall ==
  /\ ~probe.done
  /\ probe' = [probe EXCEPT
                 !.done = TRUE,
                 !.out = SlugProbe(probe.names, probe.bad, probe.exc,
                                   probe.start, probe.start + SlugWindow)]
  /\ UNCHANGED <<phase, state, _seen, persisted, processing_queue, error_count,
                 total_processed, wpc, msg, packs, hist, held>>

SlugNext == SlugCall

SlugSpec == SlugInit /\ [][SlugNext]_vars

TypeOK ==
  /\ phase \in {"boot", "verify", "running", "aborted"}
  /\ Len(processing_queue) <= MAX_QUEUE_SIZE

(* ===== properties ================================================================= *)

\* uploads of `id` as a reaction of kind `e`
AcksOf(id, e) == {a \in acks : a[2] = id /\ a[3] = e}

\* C1: at-most-once admission: no content identity is uploaded into the
\* platform's packs more than once, counting the first sticker of
\* create_new_sticker_set and every add_sticker_to_set.
C1_AtMostOnceAdmission == \A id \in Ids : placed[id] <= 1

\* C2: dedup idempotence: the step of process_sticker that finds the identity
\* in _seen changes neither the packs, the state record, the ledger, the
\* saved file nor the reactions; and while an identity is in _seen no step
\* uploads it or acknowledges it as added, so a second submission adds
\* nothing.
C2_DedupIdempotent ==
  [][ /\ (wpc = "dedup" /\ msg.id \in _seen /\ wpc' # wpc) =>
           /\ packs' = packs
           /\ state' = state
           /\ _seen' = _seen
           /\ persisted' = persisted
           /\ acks' = acks
           /\ placed' = placed
           /\ error_count' = error_count
           /\ total_processed' = total_processed
      /\ \A id \in _seen :
           /\ placed'[id] = placed[id]
           /\ AcksOf(id, "up")' = AcksOf(id, "up")
    ]_vars

\* C2 witness: a message was discarded as a duplicate of a sticker that was
\* admitted before, with exactly one upload acknowledgment for its identity
C2_Witness ==
  \E l \in logged : \E a \in acks :
    /\ l[3] = "dup"
    /\ a[3] = "up"
    /\ a[2] = l[2]
    /\ a[1] # l[1]
    /\ Cardinality(AcksOf(a[2], "up")) = 1

\* C3: capacity: no pack ever holds more stickers (the one it was created
\* with plus every appended one) than the capacity of its kind.
C3_Capacity ==
  \A p \in DOMAIN packs :
    p > 0 => Len(packs[p].stickers) <= Limit(packs[p].anim)

\* C4: kind isolation: no pack holds both a static and an animated/video
\* sticker.
C4_KindIsolation ==
  \A p \in DOMAIN packs :
    \A i, j \in 1..Len(packs[p].stickers) :
      IsAnim(packs[p].stickers[i]) = IsAnim(packs[p].stickers[j])

\* C5: bounded recovery: the pack-vanished recovery (reset, new pack, retry)
\* is performed at most once for any one message.
C5_BoundedRecovery == \A n \in 1..MaxArrivals : recov[n] <= 1

\* the step of process_sticker that takes the success branch for message m
Admits(m) == <<m.n, m.id, "up">> \in acks' \ acks

\* C6: recovery idempotence: when a message whose append found the pack
\* missing is finally admitted, exactly one pack has been created for it
\* since that append and index is one more than it was at that append.
C6_RecoveryIdempotent ==
  [][ (wpc = "add" /\ recov[msg.n] >= 1 /\ Admits(msg)) =>
        /\ made[msg.n] = 1
        /\ state'.index = failIdx[msg.n] + 1
    ]_vars

\* C7: resize failure is a soft skip: a step in which _maybe_resize_static
\* raised ValueError, on the append or the pack-creation path, sends the
\* failure reaction for the message, leaves the ledger as it was and does
\* not increment count.
C7_ResizeSoftSkip ==
  [][ (<<msg.n, msg.id, "resize_failed">> \in logged' \ logged) =>
        /\ <<msg.n, msg.id, "down">> \in acks'
        /\ <<msg.n, msg.id, "up">> \notin acks'
        /\ _seen' = _seen
        /\ state'.seen = state.seen
        /\ state'.count <= state.count
    ]_vars

\* C8: bootstrap reset preserves index and seen: the step of _sync_state
\* that finds the recorded pack missing blanks current_pack and count, and
\* index and seen keep their values, in memory and in the saved file.
C8_ResetPreserves ==
  [][ (phase = "verify" /\ state.current_pack # 0 /\ state'.current_pack = 0) =>
        /\ state'.count = 0
        /\ state'.index = state.index
        /\ state'.seen = state.seen
        /\ persisted' = save_state(state')
    ]_vars

\* C9: non-blocking arrival with backpressure: the queue never holds more
\* than MAX_QUEUE_SIZE messages, and every arrival is settled in its own
\* step: rejected with the failure reaction and not enqueued when the queue
\* is full, enqueued at the tail without a reaction otherwise.
C9_Backpressure ==
  /\ [](Len(processing_queue) <= MAX_QUEUE_SIZE)
  /\ [][ arrivals' # arrivals =>
           IF Len(processing_queue) >= MAX_QUEUE_SIZE
           THEN /\ processing_queue' = processing_queue
                /\ \E id \in Ids : acks' = acks \cup {<<arrivals', id, "down">>}
           ELSE /\ Len(processing_queue') = Len(processing_queue) + 1
                /\ processing_queue'[Len(processing_queue')].n = arrivals'
                /\ acks' = acks
       ]_vars

\* C9 witness: an arrival was rejected while the queue was full
C9_Witness ==
  /\ Len(processing_queue) = MAX_QUEUE_SIZE
  /\ \E l \in logged : \E a \in acks :
       l[3] = "queue_full" /\ a[1] = l[1] /\ a[3] = "down"

\* the traffic of the pipeline: the queue, the worker and the arrivals
Traffic == <<processing_queue, wpc, msg, arrivals, acks, logged, packs, placed>>

\* C10: bootstrap precedes traffic: within one run of the process, nothing
\* is delivered to hoover, dequeued or processed while _sync_state has not
\* completed; the pipeline starts only out of a completed _sync_state, and
\* never once _sync_state has raised.
C10_BootstrapFirst ==
  [][ runs' = runs =>
        /\ (phase # "running" /\ vanished' = vanished) => UNCHANGED Traffic
        /\ phase = "aborted" => phase' = "aborted"
        /\ (phase # "running" /\ phase' = "running") => phase = "verify"
        /\ (phase = "boot" /\ phase' = "verify") =>
              \A p \in SyncPacks \cap DOMAIN packs :
                 Range(packs[p].stickers) \subseteq _seen'
    ]_vars

\* C10 witness: after a completed sync that seeded the ledger from a
\* reference pack, the worker is processing a message
C10_Witness ==
  /\ phase = "running"
  /\ wpc = "add"
  /\ Range(packs[-1].stickers) \subseteq _seen

\* the window of a finished call of _slug, the candidates answered with an
\* error, and those answered "does not exist"
ProbeWindow == probe.start .. (probe.start + SlugWindow - 1)
ProbeErrors == (probe.bad \cup probe.exc) \cap ProbeWindow
ProbeFree == {i \in ProbeWindow : i \notin probe.names \cup probe.bad \cup probe.exc}

\* C11: slug allocation fails fast: when a candidate is answered with an
\* error other than "does not exist" before any candidate was found free,
\* the call ends with that error: it returns no name and does not run on
\* to "No free slug".
C11_SlugFailsFast ==
  (probe # <<>> /\ probe.done) =>
    \A e \in ProbeErrors :
      (\A f \in ProbeFree : e < f) => probe.out = Raised

\* the messages admitted so far, and those that ended in a failure other
\* than the rejection by a full queue
Admitted == {a \in acks : a[3] = "up"}
FailedMsgs ==
  {a \in acks : a[3] = "down" /\ <<a[1], a[2], "queue_full">> \notin logged}

\* a run from the blank state in which every handled item was new, of one
\* kind, and went through without a failure; the worker is between items
CleanStream ==
  /\ phase = "running"
  /\ wpc = "get"
  /\ runs = 0
  /\ vanished = 0
  /\ FailedMsgs = {}
  /\ \A l \in logged : l[3] # "resize_failed"
  /\ \A a, b \in Admitted : IsAnim(a[2]) = IsAnim(b[2])

\* C12: rollover bookkeeping of a single-kind stream: after n admissions of
\* one kind with capacity c and no failure, count = ((n-1) mod c) + 1 and
\* index = ceil(n/c).
C12_StreamBookkeeping ==
  (CleanStream /\ Admitted # {}) =>
    LET n == Cardinality(Admitted)
        c == Limit(state.is_animated)
    IN /\ \A a \in Admitted : IsAnim(a[2]) = state.is_animated
       /\ state.count = ((n - 1) % c) + 1
       /\ state.index = (n + c - 1) \div c

\* C12 witness: three static items A, B, C with capacity 2: the third rolled
\* over to a second pack, count 1, index 2
C12_Witness ==
  /\ CleanStream
  /\ Cardinality(Admitted) = MAX_STATIC + 1
  /\ ~state.is_animated
  /\ state.count = 1
  /\ state.index = 2

\* C13: memberCount mirrors the directory: while the worker is between items,
\* a current pack is recorded and no pack was changed out of band, count is
\* the number of stickers the platform holds for the current pack.
C13_CountMirrors ==
  ( /\ phase = "running"
    /\ wpc = "get"
    /\ vanished = 0
    /\ state.current_pack # 0
    /\ state.current_pack \in DOMAIN packs ) =>
      state.count = Len(packs[state.current_pack].stickers)

\* C14: memberCount bound: while a current pack is recorded, count is at most
\* the capacity of the recorded kind; an item taken up when count equals that
\* capacity goes to a rollover, and every append happens below the capacity.
C14_CountBound ==
  /\ [](state.current_pack # 0 => state.count <= Limit(state.is_animated))
  /\ [][ /\ ( /\ wpc = "dedup"
              /\ wpc' \in {"add", "newpack"}
              /\ state.current_pack # 0
              /\ state.count = Limit(state.is_animated) ) =>
                (wpc' = "newpack" /\ state'.count = 0)
         /\ (wpc = "add" /\ packs' # packs) =>
                state.count < Limit(state.is_animated)
       ]_vars

\* C14 witness: a single-kind stream without failures filled the first
\* animated pack to its capacity and the next item rolled over to a second
\* pack, which is full as well
C14_Witness ==
  /\ CleanStream
  /\ state.is_animated
  /\ state.current_pack # 0
  /\ state.index = 2
  /\ state.count = MAX_ANIM
  /\ Cardinality(Admitted) = 2 * MAX_ANIM

\* C15: index advances only on supersession: a step of process_sticker
\* changes index by at most one and only upwards; index is what it was when
\* the item was taken up if the item is appended in place, if there was no
\* current pack, and when the handler returns after a failed pack creation.
C15_IndexOnSupersession ==
  [][ (wpc # "get" /\ phase = "running" /\ phase' = "running") =>
        /\ state'.index \in {state.index, state.index + 1}
        /\ (wpc = "dedup" /\ wpc' = "add") => state'.index = idx0
        /\ (wpc = "dedup" /\ wpc' = "newpack" /\ state.current_pack = 0) =>
              state'.index = idx0
        /\ (wpc = "newpack" /\ wpc' = "get" /\ packs' = packs) =>
              state'.index = idx0
    ]_vars

\* C16: persistence tracks every mutation: once _sync_state has finished and
\* whenever process_sticker has finished an item, the saved file holds the
\* in-memory index, count, current_pack and is_animated, and its seen list
\* is the in-memory ledger _seen.
C16_PersistedIsState ==
  (phase = "running" /\ wpc = "get") =>
    /\ persisted # <<>>
    /\ persisted[1].index = state.index
    /\ persisted[1].count = state.count
    /\ persisted[1].current_pack = state.current_pack
    /\ persisted[1].is_animated = state.is_animated
    /\ persisted[1].seen = _seen

\* the queued messages whose append reported the pack vanished and which
\* wait for their retry
AwaitingRetry ==
  {processing_queue[i].n : i \in {j \in 1..Len(processing_queue) :
                                     recov[processing_queue[j].n] >= 1}}

\* C17: recovery re-enters with the same item: while a message waits for its
\* retry after the pack vanished, the worker takes no other message from the
\* queue and no pack is created for another message.
C17_SameItemRetried ==
  [][ /\ (wpc = "get" /\ wpc' = "enter") =>
            \A n \in AwaitingRetry : msg'.n = n
      /\ (wpc = "newpack" /\ DOMAIN packs' # DOMAIN packs /\ vanished' = vanished) =>
            AwaitingRetry = {}
    ]_vars

\* C18: slug allocation result: a returned candidate is the smallest one of
\* the probe window that the platform reports as not existing and is never
\* an existing name; the call ends with 'No free slug' exactly when every
\* candidate of the window exists.
C18_SlugResult ==
  (probe # <<>> /\ probe.done) =>
    /\ probe.out > 0 =>
         /\ probe.out \in ProbeWindow \ probe.names
         /\ \A f \in ProbeFree : probe.out <= f
    /\ probe.out = NoFreeSlug <=> ProbeWindow \subseteq probe.names

\* the identities held by the packs of `names` that exist on the platform
IdsOf(names) ==
  UNION {Range(packs[p].stickers) : p \in names \cap DOMAIN packs}

\* C19: bootstrap seeding error policy: a bootstrap that completes has
\* skipped the missing packs and left in the ledger (and in the saved seen
\* list) the prior ledger plus every identity of every pack that exists
\* among the reference packs and the recorded current pack; a bootstrap
\* that meets another error aborts the start: nothing is saved and no
\* sticker is taken up until the process is started again.
C19_BootstrapPolicy ==
  [][ /\ (phase = "boot" /\ phase' = "verify") =>
            /\ _seen' = _seen \cup IdsOf(SyncPacks)
            /\ persisted' = save_state([state EXCEPT !.seen = _seen'])
      /\ (phase = "boot" /\ phase' = "aborted") =>
            /\ persisted' = persisted
            /\ state' = state
      /\ (phase = "aborted" /\ phase' = "aborted") =>
            UNCHANGED <<processing_queue, wpc, msg, arrivals, acks, placed,
                        state, _seen, persisted>>
    ]_vars

\* C19 witness: after a restart with a recorded current pack, the bootstrap
\* has skipped the missing reference pack and seeded the ledger from the
\* pack before it and from the current pack after it
C19_Witness ==
  /\ phase = "verify"
  /\ runs = 1
  /\ state.current_pack \in DOMAIN packs
  /\ \E i \in 1..Len(EXTRA_PACKS) : EXTRA_PACKS[i] \notin DOMAIN packs
  /\ _seen = IdsOf(SyncPacks)
  /\ IdsOf({state.current_pack}) \ IdsOf({-1}) # {}

\* the positions of process_sticker inside `async with processing_semaphore`
InSection == {"pause", "dedup", "newpack", "add", "requeue"}

\* C20: serialized allocator mutation: at most one message holds the
\* semaphore and is inside the decision / append / ledger / save section of
\* process_sticker, namely the one the worker is handling; between two
\* messages nobody is inside, although the semaphore admits CONCURRENT_LIMIT;
\* every change of the state record or the ledger while the bot runs is made
\* by that one holder.
C20_Serialized ==
  /\ [](/\ Cardinality(holders) <= 1
        /\ Cardinality(holders) < CONCURRENT_LIMIT
        /\ wpc \in InSection => holders = {msg.n}
        /\ wpc \notin InSection => holders = {})
  /\ [][ (state' # state \/ _seen' # _seen) =>
           ((phase = "running" /\ phase' = "running") => holders = {msg.n})
       ]_vars

\* C20 witness: one message is appending inside the section while another
\* waits in the queue, which the semaphore alone would have let in
C20_Witness ==
  /\ wpc = "add"
  /\ holders = {msg.n}
  /\ processing_queue # <<>>
  /\ CONCURRENT_LIMIT > 1

\* the error rate is above MAX_ERROR_RATE = 0.3
RateAboveMax == total_processed > 0 /\ 10 * error_count > 3 * total_processed

\* C21: circuit breaker: a message that starts process_sticker while the
\* error rate is above 0.3 goes to the pause; the pause ends by going on with
\* the same message; while the worker pauses, hoover stays enabled and an
\* arrival that finds room is put into the queue without a rejection.
C21_CircuitBreaker ==
  /\ [][ /\ (wpc = "enter" /\ wpc' # "enter" /\ RateAboveMax) =>
               (wpc' = "pause" /\ msg' = msg)
         /\ (wpc = "pause" /\ wpc' # "pause") =>
               (wpc' = "dedup" /\ msg' = msg /\ holders' = {msg.n})
         /\ (wpc = "pause" /\ arrivals' # arrivals /\ ~QueueFull) =>
               /\ Len(processing_queue') = Len(processing_queue) + 1
               /\ processing_queue'[Len(processing_queue')].n = arrivals'
               /\ acks' = acks
               /\ wpc' = "pause"
       ]_vars
  /\ []((wpc = "pause" /\ phase = "running" /\ arrivals < MaxArrivals) =>
          ENABLED hoover)

\* C21 witness: a message was paused by the breaker and was then added with
\* a thumbs up, while a later arrival sits in the queue
C21_Witness ==
  \E l \in logged :
    /\ l[3] = "paused"
    /\ <<l[1], l[2], "up">> \in acks
    /\ \E i \in 1..Len(processing_queue) : processing_queue[i].n > l[1]

\* message n is in the queue or in the worker's hands
InFlight(n) ==
  \/ msg.n = n
  \/ \E i \in 1..Len(processing_queue) : processing_queue[i].n = n

\* message n was discarded as a duplicate or got its reaction
Outcome(n) ==
  \/ \E a \in acks : a[1] = n
  \/ \E l \in logged : l[1] = n /\ l[3] = "dup"

\* C22: worker progress: when every await of the worker eventually returns,
\* every message accepted into the queue eventually reaches an outcome
\* (duplicate discard, thumbs up or thumbs down), unless the process was
\* ended first and the message left the pipeline with its queue.
C22_WorkerProgress ==
  \A n \in 1..MaxArrivals : InFlight(n) ~> (Outcome(n) \/ ~InFlight(n))
====
